---- MODULE Spec2Model ----
(***************************************************************************)
(* Model of Final-Project/src/main.rs: an undirected graph kept as a map   *)
(* from node identifier to neighbour set, its degree distribution and      *)
(* two-hop neighbour count, the CSV ingestion loop, and the power-law fit  *)
(* score computed in f64 arithmetic.                                       *)
(***************************************************************************)
EXTENDS Integers, Sequences, FiniteSets

VARIABLES adjacency_list, call, before, repeat, result,
          expected, nread, skipped, pc, distribution, score

vars == <<adjacency_list, call, before, repeat, result,
          expected, nread, skipped, pc, distribution, score>>

\* ------------------------------------------------------------------------
\* Bounds of the model
\* ------------------------------------------------------------------------
MaxLines == 2
MaxLen == 3
MaxDegree == 4
MaxCount == 3
FracBits == 12

\* Node identifiers used by the add_edge / query specification.
NodeIds == {"A", "B", "C", "D"}

\* "no value yet" for the variables that hold a return value
None == [op |-> "none"]

\* ------------------------------------------------------------------------
\* Graph  (main.rs 6-55)
\* ------------------------------------------------------------------------

\* Graph::new(): an empty HashMap
NewGraph == <<>>

\* self.adjacency_list.entry(k).or_insert_with(HashSet::new).insert(v)
EntryInsert(g, k, v) ==
    [n \in (DOMAIN g) \cup {k} |->
        IF n = k
        THEN (IF k \in DOMAIN g THEN g[k] ELSE {}) \cup {v}
        ELSE g[n]]

\* mutant: only the first of the two insertions is made (a directed edge)
add_edge_directed(g, node1, node2) ==
    EntryInsert(g, node1, node2)

\* mutant: the entry is created but a node is not recorded as its own neighbour
add_edge_noloop(g, node1, node2) ==
    IF node1 = node2
    THEN [n \in (DOMAIN g) \cup {node1} |-> IF n \in DOMAIN g THEN g[n] ELSE {}]
    ELSE EntryInsert(EntryInsert(g, node1, node2), node2, node1)

\* Graph::add_edge: two entry-insertions, line 19 then line 20
add_edge(g, node1, node2) ==
    EntryInsert(EntryInsert(g, node1, node2), node2, node1)

\* *distribution.entry(degree).or_insert(0) += 1
EntryBump(dist, degree) ==
    [d \in (DOMAIN dist) \cup {degree} |->
        IF d = degree
        THEN (IF degree \in DOMAIN dist THEN dist[degree] ELSE 0) + 1
        ELSE dist[d]]

\* the loop of degree_distribution over self.adjacency_list.values(): one
\* iteration per map entry (the iteration order does not change the tally)
RECURSIVE TallyValues(_, _, _)
TallyValues(g, keys, dist) ==
    IF keys = {}
    THEN dist
    ELSE LET k == CHOOSE x \in keys : TRUE
         IN  TallyValues(g, keys \ {k}, EntryBump(dist, Cardinality(g[k])))

\* mutant: the values are collapsed into a set of distinct neighbour sets
\* before they are tallied
RECURSIVE TallyDistinct(_, _)
TallyDistinct(vals, dist) ==
    IF vals = {}
    THEN dist
    ELSE LET v == CHOOSE x \in vals : TRUE
         IN  TallyDistinct(vals \ {v}, EntryBump(dist, Cardinality(v)))

degree_distribution_distinct(g) ==
    TallyDistinct({g[k] : k \in DOMAIN g}, <<>>)

\* Graph::degree_distribution
degree_distribution(g) ==
    TallyValues(g, DOMAIN g, <<>>)

\* inner loop, lines 42-46: insert every second neighbour other than node
RECURSIVE SecondLoop(_, _, _)
SecondLoop(second_neighbors, node, acc) ==
    IF second_neighbors = {}
    THEN acc
    ELSE LET s == CHOOSE x \in second_neighbors : TRUE
         IN  SecondLoop(second_neighbors \ {s}, node,
                        IF s # node THEN acc \cup {s} ELSE acc)

\* outer loop, lines 40-48: for each neighbour present in the map
RECURSIVE NeighborLoop(_, _, _, _)
NeighborLoop(g, neighbors, node, acc) ==
    IF neighbors = {}
    THEN acc
    ELSE LET nb == CHOOSE x \in neighbors : TRUE
         IN  NeighborLoop(g, neighbors \ {nb}, node,
                          IF nb \in DOMAIN g
                          THEN SecondLoop(g[nb], node, acc)
                          ELSE acc)

\* mutant: direct neighbours of node are left out of the count as well
neighbors_at_distance_two_strict(g, node) ==
    IF node \in DOMAIN g
    THEN Cardinality(NeighborLoop(g, g[node], node, {}) \ g[node])
    ELSE 0

\* Graph::neighbors_at_distance_two
neighbors_at_distance_two(g, node) ==
    IF node \in DOMAIN g
    THEN Cardinality(NeighborLoop(g, g[node], node, {}))
    ELSE 0

\* ------------------------------------------------------------------------
\* Specification of the graph operations: any sequence of add_edge calls,
\* interleaved with the two read-only queries.
\* ------------------------------------------------------------------------
OtherIdle ==
    /\ expected = NewGraph
    /\ nread = 0
    /\ skipped = 0
    /\ pc = "graph"
    /\ distribution = <<>>
    /\ score = None

Init ==
    /\ adjacency_list = NewGraph
    /\ call = <<>>
    /\ before = NewGraph
    /\ repeat = "none"
    /\ result = None
    /\ OtherIdle

\* One call graph.add_edge(a, b).  call, before and repeat are history: the
\* arguments of this call, the map before it, and whether it repeats the
\* previous call's pair ("same" order, "swapped" order, or "none").
AddEdge(a, b) ==
    /\ adjacency_list' = add_edge(adjacency_list, a, b)
    /\ call' = <<a, b>>
    /\ before' = adjacency_list
    /\ repeat' = IF call = <<a, b>> THEN "same"
                 ELSE IF call = <<b, a>> THEN "swapped"
                 ELSE "none"
    /\ result' = None
    /\ UNCHANGED <<expected, nread, skipped, pc, distribution, score>>

\* One call graph.degree_distribution(); result holds the returned map.
DegreeDistribution ==
    /\ result' = [op |-> "degree_distribution",
                  val |-> degree_distribution(adjacency_list)]
    /\ UNCHANGED <<adjacency_list, call, before, repeat,
                   expected, nread, skipped, pc, distribution, score>>

\* One call graph.neighbors_at_distance_two(&node); result holds the count.
NeighborsAtDistanceTwo(node) ==
    /\ result' = [op |-> "neighbors_at_distance_two", arg |-> node,
                  val |-> neighbors_at_distance_two(adjacency_list, node)]
    /\ UNCHANGED <<adjacency_list, call, before, repeat,
                   expected, nread, skipped, pc, distribution, score>>

Next ==
    \/ \E a, b \in NodeIds : AddEdge(a, b)
    \/ DegreeDistribution
    \/ \E node \in NodeIds : NeighborsAtDistanceTwo(node)

Spec == Init /\ [][Next]_vars

\* ------------------------------------------------------------------------
\* Properties of the graph operations
\* ------------------------------------------------------------------------

\* the neighbour set of x: empty when x has no entry in the map
Neighbors(g, x) == IF x \in DOMAIN g THEN g[x] ELSE {}

RECURSIVE SumCounts(_, _)
SumCounts(dist, keys) ==
    IF keys = {}
    THEN 0
    ELSE LET k == CHOOSE x \in keys : TRUE
         IN  dist[k] + SumCounts(dist, keys \ {k})

\* C1: the neighbour relation is symmetric in every reachable state, and
\* after add_edge(a, b) each of a and b is a neighbour of the other.
Symmetry ==
    /\ \A x \in NodeIds : \A y \in NodeIds :
          (y \in Neighbors(adjacency_list, x)) <=> (x \in Neighbors(adjacency_list, y))
    /\ \A x \in DOMAIN adjacency_list : adjacency_list[x] \subseteq DOMAIN adjacency_list
    /\ call # <<>> =>
          /\ call[2] \in Neighbors(adjacency_list, call[1])
          /\ call[1] \in Neighbors(adjacency_list, call[2])

SymmetryWitness ==
    /\ call = <<"A", "B">>
    /\ "B" \in Neighbors(adjacency_list, "A")
    /\ "C" \in DOMAIN adjacency_list

\* C2: an add_edge call that repeats the previous call's pair, in the same
\* or in the swapped order, leaves the whole adjacency mapping as it was.
Idempotence ==
    repeat # "none" => adjacency_list = before

IdempotenceWitness ==
    /\ repeat = "swapped"
    /\ call = <<"B", "A">>
    /\ adjacency_list = before

\* C3: the map returned by degree_distribution has exactly the degrees that
\* occur as keys, each with the number of nodes of that degree, and its
\* counts sum to the number of nodes in the adjacency mapping.
DistributionSum ==
    result.op = "degree_distribution" =>
        LET dist == result.val
            DegreeOf(n) == Cardinality(adjacency_list[n])
        IN  /\ DOMAIN dist = {DegreeOf(n) : n \in DOMAIN adjacency_list}
            /\ \A d \in DOMAIN dist :
                  dist[d] = Cardinality({n \in DOMAIN adjacency_list : DegreeOf(n) = d})
            /\ SumCounts(dist, DOMAIN dist) = Cardinality(DOMAIN adjacency_list)

\* the graph of tests::test_degree_distribution: edges A-B and A-C
StarGraph ==
    [n \in {"A", "B", "C"} |-> IF n = "A" THEN {"B", "C"} ELSE {"A"}]

DistributionSumWitness ==
    /\ result.op = "degree_distribution"
    /\ adjacency_list = StarGraph
    /\ result.val = [d \in {1, 2} |-> IF d = 2 THEN 1 ELSE 2]

\* the graph of tests::test_neighbors_at_distance_two: edges A-B, B-C, C-D
PathGraph ==
    [n \in {"A", "B", "C", "D"} |->
        IF n = "A" THEN {"B"}
        ELSE IF n = "B" THEN {"A", "C"}
        ELSE IF n = "C" THEN {"B", "D"}
        ELSE {"C"}]

\* C4: on the path graph A-B, B-C, C-D neighbors_at_distance_two(B) returns
\* 2 and neighbors_at_distance_two(A) returns 1, as the unit test asserts.
PathGraphTestValues ==
    (/\ adjacency_list = PathGraph
     /\ result.op = "neighbors_at_distance_two") =>
        /\ result.arg = "B" => result.val = 2
        /\ result.arg = "A" => result.val = 1

TriangleGraph ==
    [n \in {"A", "B", "C"} |-> {"A", "B", "C"} \ {n}]

MinimumDegree ==
    /\ [](/\ \A n \in DOMAIN adjacency_list : adjacency_list[n] # {}
          /\ 0 \notin DOMAIN degree_distribution(adjacency_list)
          /\ result.op = "degree_distribution" => 0 \notin DOMAIN result.val)
    /\ [][DOMAIN adjacency_list \subseteq DOMAIN adjacency_list']_vars

MinimumDegreeWitness ==
    /\ call = <<"A", "A">>
    /\ adjacency_list = [n \in {"A"} |-> {"A"}]
    /\ result.op = "degree_distribution"
    /\ result.val = [d \in {1} |-> 1]

\* ------------------------------------------------------------------------
\* f64 arithmetic.  A value is NaN, an infinity, or a finite number; a finite
\* number is held as an integer count of 2^-FracBits units and every
\* operation rounds its exact result to the nearest unit, as IEEE-754
\* rounds to the nearest representable number.  The special values follow
\* IEEE-754: x/0 is an infinity for x # 0, 0/0 and inf/inf are NaN, x/inf is
\* 0, and NaN propagates through every operation.
\* ------------------------------------------------------------------------
Scale == 2 ^ FracBits

NaN == [k |-> "nan"]
Inf(sign) == [k |-> "inf", s |-> sign]
Fin(units) == [k |-> "fin", v |-> units]

IsNaN(x) == x.k = "nan"
IsFin(x) == x.k = "fin"
IsInf(x) == x.k = "inf"

Sign(x) == IF IsInf(x) THEN x.s ELSE IF x.v < 0 THEN 0 - 1 ELSE 1

\* n / d rounded to the nearest integer, d > 0
RoundDiv(n, d) == (2 * n + d) \div (2 * d)

\* `n as f64` for a usize n
FromUsize(n) == Fin(n * Scale)

Zero == Fin(0)
One == FromUsize(1)

\* a + b
FAdd(a, b) ==
    IF IsNaN(a) \/ IsNaN(b) THEN NaN
    ELSE IF IsInf(a) /\ IsInf(b) THEN (IF a.s = b.s THEN a ELSE NaN)
    ELSE IF IsInf(a) THEN a
    ELSE IF IsInf(b) THEN b
    ELSE Fin(a.v + b.v)

\* a - b
FSub(a, b) ==
    IF IsNaN(a) \/ IsNaN(b) THEN NaN
    ELSE IF IsInf(a) /\ IsInf(b) THEN (IF a.s # b.s THEN a ELSE NaN)
    ELSE IF IsInf(a) THEN a
    ELSE IF IsInf(b) THEN Inf(0 - b.s)
    ELSE Fin(a.v - b.v)

\* a / b
FDiv(a, b) ==
    IF IsNaN(a) \/ IsNaN(b) THEN NaN
    ELSE IF IsInf(a) THEN (IF IsInf(b) THEN NaN ELSE Inf(a.s * Sign(b)))
    ELSE IF IsInf(b) THEN Zero
    ELSE IF b.v = 0 THEN (IF a.v = 0 THEN NaN ELSE Inf(Sign(a)))
    ELSE IF b.v > 0 THEN Fin(RoundDiv(a.v * Scale, b.v))
    ELSE Fin(RoundDiv((0 - a.v) * Scale, 0 - b.v))

\* x.powi(2)
Powi2(x) ==
    IF IsNaN(x) THEN NaN
    ELSE IF IsInf(x) THEN Inf(1)
    ELSE Fin(RoundDiv(x.v * x.v, Scale))

\* floor of the square root of n >= 0, by bisection between lo and hi
RECURSIVE ISqrtBetween(_, _, _)
ISqrtBetween(n, lo, hi) ==
    IF lo >= hi
    THEN lo
    ELSE LET mid == (lo + hi + 1) \div 2
         IN  IF mid * mid <= n
             THEN ISqrtBetween(n, mid, hi)
             ELSE ISqrtBetween(n, lo, mid - 1)

ISqrt(n) == ISqrtBetween(n, 0, IF n < 46340 THEN n ELSE 46340)

\* (degree as f64).powf(alpha) with alpha = 2.5: degree^2 * sqrt(degree),
\* the square root taken to the nearest unit below; 0.powf(2.5) is 0
PowfAlpha(degree) ==
    Fin(degree * degree * ISqrt(degree * Scale * Scale))

\* ------------------------------------------------------------------------
\* evaluate_power_law  (main.rs 79-103)
\* ------------------------------------------------------------------------

\* the keys of the map in ascending order: the order of `observed` after
\* sort_by on the degree (line 85)
RECURSIVE SortedKeys(_)
SortedKeys(keys) ==
    IF keys = {}
    THEN <<>>
    ELSE LET least == CHOOSE x \in keys : \A y \in keys : x <= y
         IN  <<least>> \o SortedKeys(keys \ {least})

\* let total_nodes: usize = distribution.values().sum()
RECURSIVE SumValues(_, _)
SumValues(dist, keys) ==
    IF keys = {}
    THEN 0
    ELSE LET k == CHOOSE x \in keys : TRUE
         IN  dist[k] + SumValues(dist, keys \ {k})

TotalNodes(dist) == SumValues(dist, DOMAIN dist)

\* lines 81-85: the pairs (degree, count as f64 / total_nodes as f64), sorted
\* by degree; an empty map gives an empty vector and performs no division
Observed(dist) ==
    LET degrees == SortedKeys(DOMAIN dist)
    IN  [i \in 1..Len(degrees) |->
            <<degrees[i],
              FDiv(FromUsize(dist[degrees[i]]), FromUsize(TotalNodes(dist)))>>]

\* 1.0 / (*degree as f64).powf(alpha)
Weight(degree) == FDiv(One, PowfAlpha(degree))

\* line 90: the f64 sum of the weights over observed, in order, from 0.0
RECURSIVE SumWeights(_, _)
SumWeights(observed, i) ==
    IF i = 0
    THEN Zero
    ELSE FAdd(SumWeights(observed, i - 1), Weight(observed[i][1]))

Normalization(observed) == SumWeights(observed, Len(observed))

\* mutant: the weights are pushed without dividing by the normalization
TheoreticalRaw(observed) ==
    [i \in 1..Len(observed) |-> Weight(observed[i][1])]

\* lines 91-93: theoretical.push(1.0 / degree.powf(alpha) / normalization)
Theoretical(observed) ==
    [i \in 1..Len(observed) |->
        FDiv(Weight(observed[i][1]), Normalization(observed))]

\* lines 96-100: the f64 sum over the zipped vectors of (obs - theo).powi(2)
RECURSIVE SumSquares(_, _, _)
SumSquares(observed, theoretical, i) ==
    IF i = 0
    THEN Zero
    ELSE FAdd(SumSquares(observed, theoretical, i - 1),
              Powi2(FSub(observed[i][2], theoretical[i])))

\* mutant: the sum of squares is divided by the number of terms (a mean)
MseMean(observed, theoretical) ==
    FDiv(SumSquares(observed, theoretical, Len(observed)),
         FromUsize(Len(observed)))

Mse(observed, theoretical) ==
    SumSquares(observed, theoretical, Len(observed))

\* mutant: the sign of the error term is flipped, 1.0 / (1.0 - mse)
evaluate_power_law_minus(dist) ==
    LET observed == Observed(dist)
        theoretical == Theoretical(observed)
        mse == Mse(observed, theoretical)
    IN  FDiv(One, FSub(One, mse))

\* evaluate_power_law: 1.0 / (1.0 + mse)
evaluate_power_law(dist) ==
    LET observed == Observed(dist)
        theoretical == Theoretical(observed)
        mse == Mse(observed, theoretical)
    IN  FDiv(One, FAdd(One, mse))

\* ------------------------------------------------------------------------
\* Specification of evaluate_power_law: the argument is any map from at most
\* MaxDegree + 1 degrees to counts up to MaxCount, and the function is
\* called on it once.
\* ------------------------------------------------------------------------
Distributions ==
    UNION {[keys -> 0..MaxCount] : keys \in SUBSET (0..MaxDegree)}

PowerLawInit ==
    /\ distribution \in Distributions
    /\ score = None
    /\ pc = "power_law"
    /\ adjacency_list = NewGraph
    /\ call = <<>>
    /\ before = NewGraph
    /\ repeat = "none"
    /\ result = None
    /\ expected = NewGraph
    /\ nread = 0
    /\ skipped = 0

EvaluatePowerLaw ==
    /\ pc = "power_law"
    /\ score = None
    /\ score' = [op |-> "evaluate_power_law",
                 val |-> evaluate_power_law(distribution)]
    /\ UNCHANGED <<adjacency_list, call, before, repeat, result,
                   expected, nread, skipped, pc, distribution>>

PowerLawNext == EvaluatePowerLaw

PowerLawSpec == PowerLawInit /\ [][PowerLawNext]_vars

\* the score is a finite number s with 0 < s <= 1
InUnitInterval(x) == IsFin(x) /\ 0 < x.v /\ x.v <= One.v

Evaluated == score.op = "evaluate_power_law"

\* C6 as stated: for every map with at least one entry (each degree with
\* a count of at least 1, as an observed distribution has) the score s
\* satisfies 0 < s <= 1.
ScoreBoundsAnyMap ==
    (/\ Evaluated
     /\ DOMAIN distribution # {}
     /\ \A d \in DOMAIN distribution : distribution[d] >= 1)
        => InUnitInterval(score.val)

\* C6 amended: for every map with at least one entry whose degrees are all
\* at least 1 and whose counts sum to more than 0, 0 < s <= 1.
ScoreBounds ==
    (/\ Evaluated
     /\ DOMAIN distribution # {}
     /\ 0 \notin DOMAIN distribution
     /\ TotalNodes(distribution) > 0) => InUnitInterval(score.val)

ScoreBoundsWitness ==
    /\ Evaluated
    /\ DOMAIN distribution = {1, 2, 3}
    /\ \A d \in DOMAIN distribution : distribution[d] = d - 1
    /\ InUnitInterval(score.val)
    /\ score.val.v < One.v

SingleDegree == Cardinality(DOMAIN distribution) = 1

\* C7 as stated: a map with exactly one degree key, any degree and any
\* count >= 1, scores exactly 1.0.
SingleDegreeAnyKey ==
    (/\ Evaluated
     /\ SingleDegree
     /\ \A d \in DOMAIN distribution : distribution[d] >= 1) => score.val = One

\* C7 amended: a map with exactly one degree key d >= 1 and count >= 1
\* scores exactly 1.0.
SingleDegreeScore ==
    (/\ Evaluated
     /\ SingleDegree
     /\ \A d \in DOMAIN distribution : d >= 1 /\ distribution[d] >= 1)
        => score.val = One

SingleDegreeScoreWitness ==
    /\ Evaluated
    /\ DOMAIN distribution = {2}
    /\ distribution[2] = 2
    /\ score.val = One

\* C8 as stated: on the empty map the call does not return a normal score.
EmptyDistributionFails ==
    (Evaluated /\ DOMAIN distribution = {}) => ~IsFin(score.val)

\* C8 amended: on the empty map no division is performed and the call
\* returns exactly 1.0.
EmptyDistributionScore ==
    (Evaluated /\ DOMAIN distribution = {}) => score.val = One

EmptyDistributionScoreWitness ==
    /\ Evaluated
    /\ distribution = <<>>
    /\ TotalNodes(distribution) = 0
    /\ score.val = One

\* ------------------------------------------------------------------------
\* build_graph_from_csv  (main.rs 58-76)
\* A line is a sequence of characters (the text without its terminator), or
\* an item the reader could not decode as text.
\* ------------------------------------------------------------------------
Chars == {"a", "b", " ", ","}

Texts == UNION {[1..n -> Chars] : n \in 0..MaxLen}

\* the items of reader.lines(): Ok(record) or Err(_)
LineItems == {[ok |-> TRUE, text |-> t] : t \in Texts} \cup {[ok |-> FALSE]}

\* record.split(','): the fields between the commas, scanning from index i
\* with cur the field read so far; always at least one field
RECURSIVE SplitFrom(_, _, _)
SplitFrom(record, i, cur) ==
    IF i > Len(record)
    THEN <<cur>>
    ELSE IF record[i] = ","
         THEN <<cur>> \o SplitFrom(record, i + 1, <<>>)
         ELSE SplitFrom(record, i + 1, Append(cur, record[i]))

Split(record) == SplitFrom(record, 1, <<>>)

RECURSIVE TrimStart(_)
TrimStart(str) ==
    IF str # <<>> /\ Head(str) = " " THEN TrimStart(Tail(str)) ELSE str

RECURSIVE TrimEnd(_)
TrimEnd(str) ==
    IF str # <<>> /\ str[Len(str)] = " "
    THEN TrimEnd(SubSeq(str, 1, Len(str) - 1))
    ELSE str

\* str.trim()
Trim(str) == TrimEnd(TrimStart(str))

\* mutant: only the first field is trimmed
LoopBodyUntrimmed(graph, line) ==
    IF line.ok
    THEN LET parts == Split(line.text)
         IN  IF Len(parts) >= 2
             THEN add_edge(graph, Trim(parts[1]), parts[2])
             ELSE graph
    ELSE graph

\* the body of the for loop, lines 65-72: the graph after one item
LoopBody(graph, line) ==
    IF line.ok
    THEN LET parts == Split(line.text)
         IN  IF Len(parts) >= 2
             THEN add_edge(graph, Trim(parts[1]), Trim(parts[2]))
             ELSE graph
    ELSE graph

\* what the written contract expects of one line: an edge between the two
\* stripped fields around the first comma, for a readable line with a comma
Min(S) == CHOOSE x \in S : \A y \in S : x <= y
Max(S) == CHOOSE x \in S : \A y \in S : x >= y

CommaAt(text) == {i \in 1..Len(text) : text[i] = ","}

FieldOne(text) == SubSeq(text, 1, Min(CommaAt(text)) - 1)

FieldTwo(text) ==
    LET c1 == Min(CommaAt(text))
        later == {i \in CommaAt(text) : i > c1}
        c2 == IF later = {} THEN Len(text) + 1 ELSE Min(later)
    IN  SubSeq(text, c1 + 1, c2 - 1)

Stripped(field) ==
    LET solid == {i \in 1..Len(field) : field[i] # " "}
    IN  IF solid = {} THEN <<>> ELSE SubSeq(field, Min(solid), Max(solid))

HasTwoFields(line) == line.ok /\ CommaAt(line.text) # {}

ExpectedAfter(graph, line) ==
    IF HasTwoFields(line)
    THEN add_edge(graph, Stripped(FieldOne(line.text)), Stripped(FieldTwo(line.text)))
    ELSE graph

\* ------------------------------------------------------------------------
\* Specification of build_graph_from_csv: the reader yields up to MaxLines
\* items, any of LineItems, and then ends.  expected is the graph the
\* contract describes for the items read so far; skipped counts the items
\* that added no edge; result is what the last iteration did.
\* ------------------------------------------------------------------------
CsvInit ==
    /\ adjacency_list = NewGraph
    /\ expected = NewGraph
    /\ nread = 0
    /\ skipped = 0
    /\ pc = "reading"
    /\ result = None
    /\ call = <<>>
    /\ before = NewGraph
    /\ repeat = "none"
    /\ distribution = <<>>
    /\ score = None

\* one iteration of `for line in reader.lines()`
ReadLine(line) ==
    /\ pc = "reading"
    /\ nread < MaxLines
    /\ adjacency_list' = LoopBody(adjacency_list, line)
    /\ expected' = ExpectedAfter(expected, line)
    /\ nread' = nread + 1
    /\ skipped' = IF HasTwoFields(line) THEN skipped ELSE skipped + 1
    /\ result' = [op |-> IF ~line.ok THEN "unreadable"
                         ELSE IF Len(Split(line.text)) >= 2 THEN "edge"
                         ELSE "short"]
    /\ UNCHANGED <<call, before, repeat, pc, distribution, score>>

\* the reader is exhausted: the function returns graph
ReturnGraph ==
    /\ pc = "reading"
    /\ pc' = "done"
    /\ UNCHANGED <<adjacency_list, call, before, repeat, result,
                   expected, nread, skipped, distribution, score>>

CsvNext ==
    \/ \E line \in LineItems : ReadLine(line)
    \/ ReturnGraph

CsvSpec == CsvInit /\ [][CsvNext]_vars

\* C9: the graph built from any sequence of lines is the graph of the
\* add_edge calls for exactly the readable lines with at least two fields,
\* on their first two trimmed fields; an unreadable or short line leaves the
\* graph unchanged and the lines after it are still processed.
IngestionSkipsBadRecords ==
    adjacency_list = expected

IngestionWitness ==
    /\ pc = "done"
    /\ nread = 2
    /\ skipped = 1
    /\ result.op = "edge"
    /\ adjacency_list = add_edge(NewGraph, <<"a">>, <<"b">>)

====
